---------------------------- MODULE Spec2Model ----------------------------
(***************************************************************************)
(* MathVizAI front-end: the PdfViewer component's page-preloading state    *)
(* machine, its video-generation polling workflow, the mount-time health   *)
(* checks, the FloatingButton options and the API client (services/api.js).*)
(*                                                                         *)
(* React state is modelled by one variable per useState/useRef cell.  An   *)
(* event handler, a promise continuation or a timer callback is one        *)
(* action.  The PDF engine (react-pdf) and the backend are the environment:*)
(* their notifications and responses are chosen with \E from small sets.   *)
(***************************************************************************)
EXTENDS Integers, Sequences, FiniteSets, TLC

\* ------------------------------------------------------------------ bounds
MaxPages == 3        \* largest page count of a document
MaxFiles == 1        \* distinct files the user can choose
MaxDocPages == 200   \* largest page count of a document whose pages report in order
MaxTimers == 2       \* pending timers of one kind (setTimeout callbacks)

\* ------------------------------------------------------------- PDF loading
VARIABLES
    file,               \* useState(null): 0 is null, otherwise a file id
    docState,           \* react-pdf <Document>: "none" | "loading" | "loaded" | "failed"
    numPages,           \* useState(null): NullPages is null
    isLoadingPdf,       \* useState(false)
    loadingProgress,    \* useState(0)
    loadedPages,        \* useState(new Set())
    pageCache,          \* useState(new Map()): its key set
    loadingMessage,     \* useState(''): a Msg record
    error,              \* useState(null): "null" or the error's message
    pageLoadPromises,   \* useRef(new Map()): pages whose resolver is still stored
    preloadTimeouts,    \* pending 45 s timeouts of preloadAllPages calls, oldest first
    completionTimers,   \* pending 200 ms completion callbacks
    messageTimers,      \* pending setLoadingMessage('') callbacks
    pageNotified        \* environment: pages of the loaded document that have notified

VARIABLE
    fileInput           \* output: the file and type chosen in the file input in the
                        \* last step, or NoInput

NoInput == [json |-> "undefined"]

pdfVars == <<file, docState, numPages, isLoadingPdf, loadingProgress, loadedPages,
             pageCache, loadingMessage, error, pageLoadPromises, preloadTimeouts,
             completionTimers, messageTimers, pageNotified>>

NullFile == 0
NullPages == 0 - 1
NoError == "null"
FileIds == 1..MaxFiles
PageCounts == 1..MaxPages

\* A loading message: the template that produced it and the numbers put in it.
Msg(kind, a, b) == [kind |-> kind, a |-> a, b |-> b]
NoMsg == Msg("", 0, 0)

\* `numPages` used as a condition (null and 0 are falsy).
Truthy(n) == n # NullPages /\ n # 0

\* Math.floor in place of Math.round
ProgressFloor(size, total) == (100 * size) \div total

\* The ratios size/total, in thousandths, at which the double (size / total) * 100
\* falls just below a half that the exact quotient reaches (57.49999999999999 for
\* 23/40); they are all such ratios for documents of up to 205 pages.
HalfLostInDouble == {145, 285, 565, 575}

\* Math.round((size / numPages) * 100): rounds half up, computed in doubles.
Progress(size, total) ==
    LET exact == (200 * size + total) \div (2 * total)
    IN  IF \E r \in HalfLostInDouble : 1000 * size = r * total
        THEN exact - 1
        ELSE exact

Last(s) == s[Len(s)]
Front(s) == SubSeq(s, 1, Len(s) - 1)

\* The names handlePdfError distinguishes, and the message it stores for each.
PdfErrorNames == {"InvalidPDFException", "MissingPDFException", "RangeError",
                  "UnexpectedResponseException", "Error"}

PdfErrorMessage(name) ==
    CASE name = "InvalidPDFException" -> "Invalid or corrupted PDF file."
      [] name = "MissingPDFException" -> "PDF file could not be loaded."
      [] name = "RangeError" -> "PDF is too large for available memory."
      [] name = "UnexpectedResponseException" -> "Network error while loading PDF."
      [] OTHER -> "An unexpected error occurred."

InitPdf ==
    /\ file = NullFile
    /\ docState = "none"
    /\ numPages = NullPages
    /\ isLoadingPdf = FALSE
    /\ loadingProgress = 0
    /\ loadedPages = {}
    /\ pageCache = {}
    /\ loadingMessage = NoMsg
    /\ error = NoError
    /\ pageLoadPromises = {}
    /\ preloadTimeouts = <<>>
    /\ completionTimers = 0
    /\ messageTimers = 0
    /\ pageNotified = {}

\* handleFileChange for a chosen PDF file f; <Document file={file}> starts loading it.
handleFileChangePdf(f) ==
    /\ isLoadingPdf' = TRUE
    /\ loadingProgress' = 0
    /\ loadedPages' = {}
    /\ pageCache' = {}
    /\ loadingMessage' = Msg("Loading PDF document...", 0, 0)
    /\ file' = f
    /\ docState' = "loading"
    /\ pageNotified' = {}
    /\ UNCHANGED <<numPages, error, pageLoadPromises, preloadTimeouts,
                   completionTimers, messageTimers>>

\* handleFileChange: nothing chosen (f = NullFile) or a file of another type changes nothing.
\* handleFileChange without the test of the file's type
handleFileChangeAnyType(f, type) ==
    IF f # NullFile
    THEN handleFileChangePdf(f)
    ELSE UNCHANGED pdfVars

handleFileChange(f, type) ==
    IF f # NullFile /\ type = "application/pdf"
    THEN handleFileChangePdf(f)
    ELSE UNCHANGED pdfVars

FileChange ==
    \E f \in FileIds \cup {NullFile}, type \in {"application/pdf", "image/png"} :
        handleFileChange(f, type)

\* The same change event, with the chosen file and its type kept for inspection
FileInputChange ==
    \E f \in FileIds \cup {NullFile}, type \in {"application/pdf", "image/png"} :
        /\ fileInput' = [file |-> f, type |-> type]
        /\ handleFileChange(f, type)

\* preloadAllPages(totalPages) up to its await: the state resets, the resolvers of
\* pages 1..totalPages replace the stored ones, and the 45 s timeout is started.  The
\* catch block reads `loadedPages` of the render that created the callback.
preloadAllPages(totalPages) ==
    /\ isLoadingPdf' = TRUE
    /\ loadingProgress' = 0
    /\ loadingMessage' = Msg("Rendering N pages...", totalPages, 0)
    /\ loadedPages' = {}
    /\ pageCache' = {}
    /\ pageLoadPromises' = 1..totalPages
    /\ preloadTimeouts' = Append(preloadTimeouts,
                                 [total |-> totalPages,
                                  currentLoaded |-> Cardinality(loadedPages)])

\* onDocumentLoadSuccess({ numPages })
onDocumentLoadSuccess(n) ==
    /\ numPages' = n
    /\ error' = NoError
    /\ preloadAllPages(n)

DocumentLoadSuccess ==
    /\ docState = "loading"
    /\ Len(preloadTimeouts) < MaxTimers
    /\ \E n \in PageCounts : onDocumentLoadSuccess(n)
    /\ docState' = "loaded"
    /\ pageNotified' = {}
    /\ UNCHANGED <<file, completionTimers, messageTimers>>

\* onDocumentLoadError -> handlePdfError
onDocumentLoadError(name) ==
    error' = PdfErrorMessage(name)

DocumentLoadError ==
    /\ docState = "loading"
    /\ \E name \in {"InvalidPDFException", "Error"} : onDocumentLoadError(name)
    /\ docState' = "failed"
    /\ UNCHANGED <<file, numPages, isLoadingPdf, loadingProgress, loadedPages, pageCache,
                   loadingMessage, pageLoadPromises, preloadTimeouts, completionTimers,
                   messageTimers, pageNotified>>

\* handlePageLoadSuccess(pageNumber)
handlePageLoadSuccess(pageNumber) ==
    LET newSet == loadedPages \cup {pageNumber}
        size == Cardinality(newSet)
        tracking == isLoadingPdf /\ Truthy(numPages)
        allLoaded == tracking /\ size = numPages
        resolved == pageLoadPromises \ {pageNumber}
        \* Promise.all(loadPromises) settles the race when the last resolver is called
        settles == pageNumber \in pageLoadPromises /\ resolved = {}
    IN  /\ loadedPages' = newSet
        /\ loadingProgress' = IF tracking THEN Progress(size, numPages) ELSE loadingProgress
        /\ loadingMessage' = IF tracking
                             THEN Msg("Rendering pages... K/N", size, numPages)
                             ELSE loadingMessage
        /\ allLoaded => completionTimers < MaxTimers
        /\ completionTimers' = IF allLoaded THEN completionTimers + 1 ELSE completionTimers
        /\ pageCache' = pageCache \cup {pageNumber}
        /\ pageLoadPromises' = resolved
        /\ preloadTimeouts' = IF settles /\ preloadTimeouts # <<>>
                              THEN Front(preloadTimeouts)
                              ELSE preloadTimeouts
        /\ UNCHANGED <<file, docState, numPages, isLoadingPdf, error, messageTimers>>

\* <Page onLoadSuccess={() => handlePageLoadSuccess(pageNum)}>
onPageLoadSuccess(pageNum) == handlePageLoadSuccess(pageNum)

\* A page that fails to load only logs and changes nothing.
onPageLoadErrorLogOnly(pageNum) ==
    UNCHANGED <<file, docState, numPages, isLoadingPdf, loadingProgress, loadedPages,
                pageCache, loadingMessage, error, pageLoadPromises, preloadTimeouts,
                completionTimers, messageTimers>>

\* <Page onLoadError={...}>: logs and reports the page as handled
onPageLoadError(pageNum) == handlePageLoadSuccess(pageNum)

\* The pages are rendered once the document is loaded and numPages is truthy.
PageLoadSuccess ==
    /\ docState = "loaded" /\ Truthy(numPages)
    /\ \E p \in 1..numPages :
        /\ pageNotified' = pageNotified \cup {p}
        /\ onPageLoadSuccess(p)

\* The pages of the document report success one after the other, page 1 first.
PageLoadSuccessInOrder ==
    /\ docState = "loaded" /\ Truthy(numPages)
    /\ LET p == Cardinality(loadedPages) + 1
       IN /\ p <= numPages
          /\ pageNotified' = pageNotified \cup {p}
          /\ onPageLoadSuccess(p)

PageLoadError ==
    /\ docState = "loaded" /\ Truthy(numPages)
    /\ \E p \in 1..numPages :
        /\ pageNotified' = pageNotified \cup {p}
        /\ onPageLoadError(p)

\* The 200 ms callback scheduled when the last page is counted.
completionCallback ==
    /\ isLoadingPdf' = FALSE
    /\ loadingMessage' = Msg("All pages ready!", 0, 0)
    /\ messageTimers' = messageTimers + 1

CompletionTimerFires ==
    /\ completionTimers > 0
    /\ messageTimers < MaxTimers
    /\ completionCallback
    /\ completionTimers' = completionTimers - 1
    /\ UNCHANGED <<file, docState, numPages, loadingProgress, loadedPages, pageCache,
                   error, pageLoadPromises, preloadTimeouts, pageNotified>>

\* The catch block of preloadAllPages but for setIsLoadingPdf(false).
preloadCatchKeepsLoading(t) ==
    /\ isLoadingPdf' = isLoadingPdf
    /\ loadingMessage' = Msg("Loaded X/N pages. Others will load as needed.",
                             t.currentLoaded, t.total)
    /\ messageTimers' = messageTimers + 1

\* The catch block of preloadAllPages, entered by the 45 s timeout's rejection.
preloadCatch(t) ==
    /\ isLoadingPdf' = FALSE
    /\ loadingMessage' = Msg("Loaded X/N pages. Others will load as needed.",
                             t.currentLoaded, t.total)
    /\ messageTimers' = messageTimers + 1

\* The oldest pending timeout fires; its race was not settled by Promise.all.
PreloadTimeoutFires ==
    /\ preloadTimeouts # <<>>
    /\ messageTimers < MaxTimers
    /\ preloadCatch(Head(preloadTimeouts))
    /\ preloadTimeouts' = Tail(preloadTimeouts)
    /\ UNCHANGED <<file, docState, numPages, loadingProgress, loadedPages, pageCache,
                   error, pageLoadPromises, completionTimers, pageNotified>>

\* setTimeout(() => setLoadingMessage(''), ...)
MessageTimerFires ==
    /\ messageTimers > 0
    /\ loadingMessage' = NoMsg
    /\ messageTimers' = messageTimers - 1
    /\ UNCHANGED <<file, docState, numPages, isLoadingPdf, loadingProgress, loadedPages,
                   pageCache, error, pageLoadPromises, preloadTimeouts, completionTimers,
                   pageNotified>>

\* The loading overlay, with its two buttons, is rendered while file && isLoadingPdf.
OverlayShown == file # NullFile /\ isLoadingPdf

\* 'Skip & View Now' onClick
SkipLoading ==
    /\ OverlayShown
    /\ messageTimers < MaxTimers
    /\ isLoadingPdf' = FALSE
    /\ loadingMessage' = Msg("Preloading skipped. Pages will load as needed.", 0, 0)
    /\ messageTimers' = messageTimers + 1
    /\ UNCHANGED <<file, docState, numPages, loadingProgress, loadedPages, pageCache,
                   error, pageLoadPromises, preloadTimeouts, completionTimers,
                   pageNotified>>

\* A Cancel that removes the file and keeps the page count and the loaded pages
CancelLoadingKeepsPages ==
    /\ OverlayShown
    /\ isLoadingPdf' = FALSE
    /\ loadingMessage' = NoMsg
    /\ file' = NullFile
    /\ docState' = "none"
    /\ pageNotified' = {}
    /\ UNCHANGED <<numPages, loadedPages, loadingProgress, pageCache, error,
                   pageLoadPromises, preloadTimeouts, completionTimers, messageTimers>>

\* 'Cancel' onClick; with file null the <Document> is unmounted.
CancelLoading ==
    /\ OverlayShown
    /\ isLoadingPdf' = FALSE
    /\ loadingMessage' = NoMsg
    /\ file' = NullFile
    /\ numPages' = 0
    /\ loadedPages' = {}
    /\ docState' = "none"
    /\ pageNotified' = {}
    /\ UNCHANGED <<loadingProgress, pageCache, error, pageLoadPromises, preloadTimeouts,
                   completionTimers, messageTimers>>

\* 'Try Another File' onClick of the error display
TryAnotherFile ==
    /\ file # NullFile /\ error # NoError
    /\ error' = NoError
    /\ file' = NullFile
    /\ numPages' = 0
    /\ docState' = "none"
    /\ pageNotified' = {}
    /\ UNCHANGED <<isLoadingPdf, loadingProgress, loadedPages, pageCache, loadingMessage,
                   pageLoadPromises, preloadTimeouts, completionTimers, messageTimers>>

\* 'Dismiss' onClick of the error display
DismissError ==
    /\ file # NullFile /\ error # NoError
    /\ error' = NoError
    /\ UNCHANGED <<file, docState, numPages, isLoadingPdf, loadingProgress, loadedPages,
                   pageCache, loadingMessage, pageLoadPromises, preloadTimeouts,
                   completionTimers, messageTimers, pageNotified>>

\* ------------------------------------------------------ API client (api.js)
\* What the network gives back for one fetch: the fetch itself fails (no connection),
\* or an HTTP response arrives whose body is JSON text or not.  A JSON body is a record;
\* JSON null is NullJson.
HttpStatuses == {200, 201, 404, 500}
FetchFailed == [kind |-> "fail"]
HttpResponse(status, body) == [kind |-> "http", status |-> status, body |-> body]
InvalidJson == [json |-> "invalid"]
NullJson == [json |-> "null"]

\* response.ok
ResponseOk(net) == net.kind = "http" /\ net.status >= 200 /\ net.status <= 299

\* await response.json() succeeds
JsonParses(net) == net.kind = "http" /\ net.body # InvalidJson

Resolve(data) == [kind |-> "resolve", data |-> data]
Reject(message) == [kind |-> "reject", message |-> message]

\* A request function that turns every failure into a fallback value.
fetchJsonOrFallback(net, fallback) ==
    IF net.kind = "fail" THEN Resolve(fallback)
    ELSE IF ~JsonParses(net) THEN Resolve(fallback)
    ELSE Resolve(net.body)

\* try { fetch; if (!response.ok) throw; return await response.json() } catch { throw }
fetchJsonOrThrow(net) ==
    IF net.kind = "fail" THEN Reject("Failed to fetch")
    ELSE IF ~ResponseOk(net) THEN Reject("HTTP error! status")
    ELSE IF ~JsonParses(net) THEN Reject("Unexpected token")
    ELSE Resolve(net.body)

\* The body of POST /generate-video: JSON.stringify({ text, quality })
generateVideoBody(selectedText, options) ==
    [text |-> selectedText,
     quality |-> IF options.quality # "" THEN options.quality ELSE "medium_quality"]

\* The body of POST /generate-from-latex: JSON.stringify({ latex, quality })
generateFromLatexBody(latexContent, options) ==
    [latex |-> latexContent,
     quality |-> IF options.quality # "" THEN options.quality ELSE "medium"]

\* generateVideo without the response.ok test
generateVideoNoOkTest(net) ==
    IF net.kind = "fail" THEN Reject("Failed to fetch")
    ELSE IF ~JsonParses(net) THEN Reject("Unexpected token")
    ELSE Resolve(net.body)

\* mathVideoAPI.generateVideo
generateVideo(net) == fetchJsonOrThrow(net)

\* mathVideoAPI.generateFromLatex: a response that is not ok throws errorData.error or
\* the HTTP status, whether or not its body parses.
generateFromLatex(net) ==
    IF net.kind = "fail" THEN Reject("Failed to fetch")
    ELSE IF ~ResponseOk(net) THEN Reject("HTTP error! status")
    ELSE IF ~JsonParses(net) THEN Reject("Unexpected token")
    ELSE Resolve(net.body)

\* mathVideoAPI.checkStatus
checkStatus(net) == fetchJsonOrThrow(net)

\* mathVideoAPI.checkSetup: never tests response.ok and never throws
checkSetup(net) ==
    fetchJsonOrFallback(net, [status |-> "error", message |-> "Backend unavailable"])

\* ocrAPI.extractContent
extractContent(net) == fetchJsonOrThrow(net)

\* ocrAPI.checkStatus: never tests response.ok and never throws
ocrCheckStatus(net) ==
    fetchJsonOrFallback(net, [status |-> "error", message |-> "OCR backend unavailable"])

\* ocrAPI.listVideos
listVideos(net) == fetchJsonOrThrow(net)

\* ---------------------------------------------- mount-time health checks
NotYet == [kind |-> "pending"]
Undefined == [json |-> "undefined"]

\* One call of an API function, to whatever the network gives it.
VARIABLES
    apiFunction,        \* the function called, "none" before the call
    apiNet,             \* what the network gave its fetch
    apiResult           \* how the returned promise settled

apiVars == <<apiFunction, apiNet, apiResult>>

ApiBodies == {InvalidJson, NullJson, [success |-> TRUE],
              [success |-> FALSE, error |-> "Internal error"]}

ApiNets == {FetchFailed} \cup {HttpResponse(st, b) : st \in HttpStatuses, b \in ApiBodies}

InitApi ==
    /\ apiFunction = "none"
    /\ apiNet = NotYet
    /\ apiResult = NotYet

ApiCall(name, result) ==
    /\ apiFunction = "none"
    /\ apiFunction' = name
    /\ apiResult' = result

CallGenerateVideo ==
    \E net \in ApiNets : apiNet' = net /\ ApiCall("generateVideo", generateVideo(net))

CallGenerateFromLatex ==
    \E net \in ApiNets : apiNet' = net /\ ApiCall("generateFromLatex", generateFromLatex(net))

CallCheckStatus ==
    \E net \in ApiNets : apiNet' = net /\ ApiCall("checkStatus", checkStatus(net))

CallCheckSetup ==
    \E net \in ApiNets : apiNet' = net /\ ApiCall("checkSetup", checkSetup(net))

CallExtractContent ==
    \E net \in ApiNets : apiNet' = net /\ ApiCall("extractContent", extractContent(net))

CallOcrCheckStatus ==
    \E net \in ApiNets : apiNet' = net /\ ApiCall("ocrCheckStatus", ocrCheckStatus(net))

CallListVideos ==
    \E net \in ApiNets : apiNet' = net /\ ApiCall("listVideos", listVideos(net))

VARIABLES
    backendStatus,      \* useState('checking')
    ocrBackendStatus,   \* useState('checking')
    backendHealth,      \* environment: what the network gave checkBackend, or NotYet
    ocrHealth           \* environment: what the network gave checkOcrBackend, or NotYet

healthVars == <<backendStatus, ocrBackendStatus, backendHealth, ocrHealth>>


\* Bodies GET /health may carry: README's shape, with and without `services`.
HealthBodies ==
    {InvalidJson, NullJson}
    \cup {[status |-> s, services |-> Undefined] : s \in {"healthy", "degraded"}}
    \cup {[status |-> s, services |-> [manim |-> m, ocr |-> o]] :
            s \in {"healthy", "degraded"}, m \in BOOLEAN, o \in BOOLEAN}

HealthNets ==
    {FetchFailed} \cup {HttpResponse(st, b) : st \in {200, 500}, b \in HealthBodies}

InitHealth ==
    /\ backendStatus = "checking"
    /\ ocrBackendStatus = "checking"
    /\ backendHealth = NotYet
    /\ ocrHealth = NotYet

\* checkBackend that takes any `services` object of a healthy backend for readiness
checkBackendAnyService(result) ==
    IF result.kind = "reject" \/ result.data = NullJson
    THEN "offline"
    ELSE LET status == result.data
         IN IF status.status = "healthy" /\ status.services # Undefined
            THEN "ready"
            ELSE "error"

\* checkBackend after `await mathVideoAPI.checkSetup()`; reading a property of null throws
checkBackend(result) ==
    IF result.kind = "reject" \/ result.data = NullJson
    THEN "offline"
    ELSE LET status == result.data
         IN IF status.status = "healthy" /\ status.services # Undefined
            THEN (IF status.services.manim THEN "ready" ELSE "error")
            ELSE "error"

\* checkOcrBackend after `await ocrAPI.checkStatus()`
checkOcrBackend(result) ==
    IF result.kind = "reject" \/ result.data = NullJson
    THEN "offline"
    ELSE LET status == result.data
         IN IF status.status = "healthy" /\ status.services # Undefined
                /\ status.services.ocr
            THEN "ready"
            ELSE "error"

BackendHealthArrives ==
    /\ backendHealth = NotYet
    /\ \E net \in HealthNets :
        /\ backendHealth' = net
        /\ backendStatus' = checkBackend(checkSetup(net))
    /\ UNCHANGED <<ocrBackendStatus, ocrHealth>>

OcrHealthArrives ==
    /\ ocrHealth = NotYet
    /\ \E net \in HealthNets :
        /\ ocrHealth' = net
        /\ ocrBackendStatus' = checkOcrBackend(ocrCheckStatus(net))
    /\ UNCHANGED <<backendStatus, backendHealth>>

\* ------------------------------------------------ FloatingButton.jsx
VARIABLES
    difficulty,         \* useState('intermediate')
    quality,            \* useState('medium_quality')
    showOptions         \* useState(false)

buttonVars == <<difficulty, quality, showOptions>>

\* The <option> values of the two selects.
DifficultyLevels == {"beginner", "intermediate", "advanced"}
VideoQualities == {"low_quality", "medium_quality", "high_quality"}

InitButton ==
    /\ difficulty = "intermediate"
    /\ quality = "medium_quality"
    /\ showOptions = FALSE

\* const options = { difficulty, quality, duration: 45, ...customOptions }
buttonOptions == [difficulty |-> difficulty, quality |-> quality, duration |-> 45]

\* ---------------------------------------------- video generation (PdfViewer)
MaxCalls == 1        \* generation requests started in one run
MaxPolls == 2        \* status requests of one task

VARIABLES
    selectedText,           \* useState(''): a sequence of characters
    isGenerating,           \* useState(false)
    generationProgress,     \* useState(0)
    generationMessage,      \* useState('')
    currentTaskId,          \* useState(null)
    showVideoPlayer,        \* useState(false)
    currentVideoUrl,        \* useState('')
    showExplanationViewer,  \* useState(false)
    showOcrPanel,           \* useState(false)
    ocrPanelMinimized,      \* useState(false)
    latestOcrResult,        \* useState(null): "null" or the LaTeX of the latest result
    calls,                  \* the asynchronous generation calls, by call id
    alert,                  \* output: the window.alert raised by the last step, or NoAlert
    sentRequest,            \* output: the last generation request sent to the backend
    genNet                  \* environment: what the network gave the generation request
                            \* answered in the last step, or NotYet

genVars == <<selectedText, isGenerating, generationProgress, generationMessage,
             currentTaskId, showVideoPlayer, currentVideoUrl, showExplanationViewer,
             showOcrPanel, ocrPanelMinimized, latestOcrResult, calls, alert, sentRequest,
             genNet>>

CallIds == 1..MaxCalls
NullTask == 0
UndefinedTask == 0 - 1
NoAlert == "none"

\* String.prototype.trim on a sequence of characters
RECURSIVE TrimStart(_)
TrimStart(s) == IF s # <<>> /\ Head(s) = " " THEN TrimStart(Tail(s)) ELSE s

RECURSIVE TrimEnd(_)
TrimEnd(s) == IF s # <<>> /\ Last(s) = " " THEN TrimEnd(Front(s)) ELSE s

Trim(s) == TrimEnd(TrimStart(s))

\* What window.getSelection().toString() may hold when the selection changes.
Selections == {<<>>, <<" ">>, <<"x">>, <<" ", "x", " ">>}

\* The artifacts a status response may name, and the suffix of each.
VideoUrls == {"/api/videos/a.mp4", "/api/videos/e.json"}
VideoPaths == {"media/a.mp4", "media/e.json", "media/n.txt"}

Suffix(s) ==
    CASE s \in {"/api/videos/a.mp4", "media/a.mp4"} -> ".mp4"
      [] s \in {"/api/videos/e.json", "media/e.json"} -> ".json"
      [] s = "media/n.txt" -> ".txt"
      [] OTHER -> ""

\* s && s.endsWith(suffix); an absent field is ""
EndsWith(s, suffix) == s # "" /\ Suffix(s) = suffix

\* A call that was never started.  pc is the await or timer the call is parked at:
\*   "generate"  awaiting mathVideoAPI.generateVideo      (handleVisualize)
\*   "status"    awaiting mathVideoAPI.checkStatus        (pollGenerationStatus)
\*   "wait"      the 2 s setTimeout before the next poll
\*   "explain"   awaiting the fetch of the explanation file
\*   "latex"     awaiting mathVideoAPI.generateFromLatex  (OCR panel Visualize)
\*   "delay"     the 500 ms setTimeout before the player opens
\* taskId and videoPath are the call's local variables; polls counts the status requests
\* it issued; lastStatus is the last status answer it got ("error" for a rejection);
\* cancelled records that handleCancelGeneration ran while the call was in flight.
IdleCall ==
    [pc |-> "idle", taskId |-> NullTask, videoPath |-> "", polls |-> 0,
     lastStatus |-> "none", cancelled |-> FALSE]

\* A call that has returned: its locals are gone.
Finished(lastStatus) == [IdleCall EXCEPT !.pc = "done", !.lastStatus = lastStatus]

InFlight(c) == calls[c].pc \notin {"idle", "done"}

\* The lowest call id not used yet.
FreeCall(c) ==
    /\ calls[c].pc = "idle"
    /\ \A d \in CallIds : d < c => calls[d].pc # "idle"

InitGen ==
    /\ selectedText = <<>>
    /\ isGenerating = FALSE
    /\ generationProgress = 0
    /\ generationMessage = ""
    /\ currentTaskId = NullTask
    /\ showVideoPlayer = FALSE
    /\ currentVideoUrl = ""
    /\ showExplanationViewer = FALSE
    /\ showOcrPanel = FALSE
    /\ ocrPanelMinimized = FALSE
    /\ latestOcrResult = "null"
    /\ calls = [c \in CallIds |-> IdleCall]
    /\ alert = NoAlert
    /\ sentRequest = Undefined
    /\ genNet = NotYet

\* handleTextSelection: the trimmed selection becomes selectedText when its rectangle
\* is visible; an empty selection clears it.  (The spacing repairs between letters,
\* digits and units match nothing in the selections drawn here.)
handleTextSelection(selection, visible) ==
    LET text == Trim(selection)
    IN selectedText' = IF text = <<>> THEN <<>>
                       ELSE IF visible THEN text ELSE selectedText

TextSelection ==
    /\ \E selection \in Selections, visible \in BOOLEAN :
        handleTextSelection(selection, visible)
    /\ alert' = NoAlert
    /\ UNCHANGED <<isGenerating, generationProgress, generationMessage, currentTaskId,
                   showVideoPlayer, currentVideoUrl, showExplanationViewer, showOcrPanel,
                   ocrPanelMinimized, latestOcrResult, calls, sentRequest, error>>

\* handleVisualize without the test of selectedText
handleVisualizeNoTrimTest(c, options) ==
    /\ isGenerating' = TRUE
    /\ generationProgress' = 0
    /\ generationMessage' = "Initializing video generation..."
    /\ calls' = [calls EXCEPT ![c].pc = "generate"]
    /\ sentRequest' = [endpoint |-> "/generate-video",
                       options |-> options,
                       body |-> generateVideoBody(selectedText, options)]

\* PdfViewer.handleVisualize(options), run as call c, up to its await
handleVisualize(c, options) ==
    IF Trim(selectedText) = <<>>
    THEN UNCHANGED <<isGenerating, generationProgress, generationMessage, calls,
                     sentRequest>>
    ELSE /\ isGenerating' = TRUE
         /\ generationProgress' = 0
         /\ generationMessage' = "Initializing video generation..."
         /\ calls' = [calls EXCEPT ![c].pc = "generate"]
         /\ sentRequest' = [endpoint |-> "/generate-video",
                            options |-> options,
                            body |-> generateVideoBody(selectedText, options)]

\* FloatingButton.handleVisualize with onVisualize = PdfViewer.handleVisualize
FloatingVisualize ==
    /\ \E c \in CallIds : FreeCall(c) /\ handleVisualize(c, buttonOptions)
    /\ showOptions' = FALSE
    /\ alert' = NoAlert
    /\ UNCHANGED <<difficulty, quality, selectedText, currentTaskId, showVideoPlayer,
                   currentVideoUrl, showExplanationViewer, showOcrPanel, ocrPanelMinimized,
                   latestOcrResult, error>>

\* Bodies POST /generate-video may answer call c with.
GenerateNets(c) ==
    {FetchFailed, HttpResponse(500, InvalidJson), HttpResponse(200, InvalidJson),
     HttpResponse(200, NullJson),
     HttpResponse(200, [success |-> TRUE, task_id |-> c]),
     HttpResponse(200, [success |-> FALSE, task_id |-> UndefinedTask])}

\* pollGenerationStatus(taskId) up to its await: the status request is issued
pollGenerationStatus(call, taskId) ==
    [call EXCEPT !.pc = "status", !.taskId = taskId, !.polls = call.polls + 1]

\* handleVisualize after `await mathVideoAPI.generateVideo(...)`, and its catch block
GenerateVideoResponds(c) ==
    /\ calls[c].pc = "generate"
    /\ \E net \in GenerateNets(c) :
        LET response == generateVideo(net)
        IN /\ genNet' = net
           /\ IF response.kind = "resolve" /\ response.data # NullJson
              THEN /\ currentTaskId' = response.data.task_id
                   /\ calls' = [calls EXCEPT ![c] =
                                  pollGenerationStatus(calls[c], response.data.task_id)]
                   /\ alert' = NoAlert
                   /\ UNCHANGED <<isGenerating, generationMessage>>
              ELSE /\ isGenerating' = FALSE
                   /\ generationMessage' = "Failed to start video generation"
                   /\ calls' = [calls EXCEPT ![c] = Finished("none")]
                   /\ alert' = "Failed to start video generation."
                   /\ UNCHANGED currentTaskId
    /\ UNCHANGED <<selectedText, generationProgress, showVideoPlayer, currentVideoUrl,
                   showExplanationViewer, showOcrPanel, ocrPanelMinimized, latestOcrResult,
                   sentRequest, error>>

AbsentProgress == 0 - 1

\* Bodies GET /video-status/<id> may answer with; artifacts come with 'completed'.
StatusBodies ==
    {[status |-> s, progress |-> pm[1], message |-> pm[2],
      video_url |-> "", video_path |-> ""] :
        s \in {"generating", "failed", "not_found"},
        pm \in {<<AbsentProgress, "">>, <<50, "Rendering scene">>}}
    \cup
    {[status |-> "completed", progress |-> pm[1], message |-> pm[2],
      video_url |-> u, video_path |-> v] :
        pm \in {<<AbsentProgress, "">>, <<100, "Done">>},
        u \in VideoUrls \cup {""}, v \in VideoPaths \cup {""}}

\* The backend may report 'generating' to a task's first MaxPolls - 1 requests.
StatusNets(polls) ==
    {FetchFailed, HttpResponse(404, InvalidJson), HttpResponse(200, InvalidJson),
     HttpResponse(200, NullJson)}
    \cup {HttpResponse(200, b) : b \in {x \in StatusBodies :
                                          x.status = "generating" => polls < MaxPolls}}

\* status.progress || 0
progressOrZero(p) == IF p = AbsentProgress \/ p = 0 THEN 0 ELSE p

\* status.message || 'Processing...'
messageOrDefault(m) == IF m = "" THEN "Processing..." ELSE m

\* An if / else-if chain that polls again on every status it does not know.
statusBranchPollsOnUnknown(status) ==
    IF status.status = "completed" /\ (status.video_url # "" \/ status.video_path # "")
    THEN "completed"
    ELSE IF status.status = "failed" THEN "failed"
    ELSE "generating"

\* An if / else-if chain without the 'generating' case
statusBranchStopsOnGenerating(status) ==
    IF status.status = "completed" /\ (status.video_url # "" \/ status.video_path # "")
    THEN "completed"
    ELSE IF status.status = "failed" THEN "failed"
    ELSE "unknown"

\* The if / else-if chain of pollGenerationStatus on the status answer.
statusBranch(status) ==
    IF status.status = "completed" /\ (status.video_url # "" \/ status.video_path # "")
    THEN "completed"
    ELSE IF status.status = "failed" THEN "failed"
    ELSE IF status.status = "generating" THEN "generating"
    ELSE "unknown"

\* Inside the completed branch: a video file, an explanation file, or neither.
artifactBranch(status) ==
    IF EndsWith(status.video_url, ".mp4") \/ EndsWith(status.video_path, ".mp4")
    THEN "video"
    ELSE IF EndsWith(status.video_path, ".json") THEN "explanation"
    ELSE "none"

\* `/api/videos/${encodeURIComponent(videoPath.split('/').pop())}`
apiVideoPath(videoPath) ==
    CASE videoPath = "media/a.mp4" -> "/api/videos/a.mp4"
      [] videoPath = "media/e.json" -> "/api/videos/e.json"
      [] videoPath = "media/n.txt" -> "/api/videos/n.txt"
      [] OTHER -> "/api/videos/"

\* const pathPart = status.video_url ? status.video_url : `/api/videos/...`
pathPart(status) ==
    IF status.video_url # "" THEN status.video_url ELSE apiVideoPath(status.video_path)

\* The catch block of pollGenerationStatus
statusCatch(c) ==
    /\ isGenerating' = FALSE
    /\ calls' = [calls EXCEPT ![c] = Finished("error")]
    /\ alert' = "Error checking generation status"
    /\ UNCHANGED <<selectedText, generationProgress, generationMessage, showVideoPlayer,
                   currentVideoUrl>>

\* pollGenerationStatus after `await mathVideoAPI.checkStatus(taskId)` resolved
statusResolved(c, status) ==
    LET branch == statusBranch(status)
        artifact == artifactBranch(status)
    IN  /\ generationProgress' = progressOrZero(status.progress)
        /\ generationMessage' = messageOrDefault(status.message)
        /\ isGenerating' = IF branch = "generating" THEN isGenerating ELSE FALSE
        /\ showVideoPlayer' = IF branch = "completed" /\ artifact = "video"
                              THEN TRUE ELSE showVideoPlayer
        /\ currentVideoUrl' = IF branch = "completed" /\ artifact = "video"
                              THEN pathPart(status) ELSE currentVideoUrl
        /\ selectedText' = IF branch = "completed" /\ artifact # "explanation"
                           THEN <<>> ELSE selectedText
        /\ calls' = [calls EXCEPT ![c] =
              CASE branch = "completed" /\ artifact = "explanation" ->
                     [calls[c] EXCEPT !.pc = "explain", !.lastStatus = status.status]
                [] branch = "generating" ->
                     [calls[c] EXCEPT !.pc = "wait", !.lastStatus = status.status]
                [] OTHER -> Finished(status.status)]
        /\ alert' = CASE branch = "failed" -> "Generation failed"
                      [] branch = "unknown" -> "Unknown error occurred during generation"
                      [] OTHER -> NoAlert

\* The status answer arrives; reading a property of a null body throws into the catch.
StatusResponds(c) ==
    /\ calls[c].pc = "status"
    /\ \E net \in StatusNets(calls[c].polls) :
        LET response == checkStatus(net)
        IN IF response.kind = "resolve" /\ response.data # NullJson
           THEN statusResolved(c, response.data)
           ELSE statusCatch(c)
    /\ UNCHANGED <<currentTaskId, showExplanationViewer, showOcrPanel, ocrPanelMinimized,
                   latestOcrResult, sentRequest, error>>

\* setTimeout(() => pollGenerationStatus(taskId), 2000)
PollTimerFires(c) ==
    /\ calls[c].pc = "wait"
    /\ calls' = [calls EXCEPT ![c] = pollGenerationStatus(calls[c], calls[c].taskId)]
    /\ alert' = NoAlert
    /\ UNCHANGED <<selectedText, isGenerating, generationProgress, generationMessage,
                   currentTaskId, showVideoPlayer, currentVideoUrl, showExplanationViewer,
                   showOcrPanel, ocrPanelMinimized, latestOcrResult, sentRequest, error>>

\* The explanation file is fetched without a test of response.ok.
ExplanationNets ==
    {FetchFailed, HttpResponse(404, InvalidJson),
     HttpResponse(200, [explanation |-> "Step 1", topic |-> "x"])}

\* pollGenerationStatus after `await fetch(explanation)`, its inner catch, and the
\* setSelectedText('') that follows
ExplanationResponds(c) ==
    /\ calls[c].pc = "explain"
    /\ \E net \in ExplanationNets :
        IF net.kind = "http" /\ JsonParses(net)
        THEN /\ showExplanationViewer' = TRUE
             /\ alert' = NoAlert
        ELSE /\ UNCHANGED showExplanationViewer
             /\ alert' = "Error loading explanation"
    /\ calls' = [calls EXCEPT ![c] = Finished(calls[c].lastStatus)]
    /\ selectedText' = <<>>
    /\ UNCHANGED <<isGenerating, generationProgress, generationMessage, currentTaskId,
                   showVideoPlayer, currentVideoUrl, showOcrPanel, ocrPanelMinimized,
                   latestOcrResult, sentRequest, error>>

\* handleCancelGeneration, the LoadingModal's onCancel
handleCancelGeneration ==
    /\ isGenerating' = FALSE
    /\ currentTaskId' = NullTask
    /\ generationProgress' = 0
    /\ generationMessage' = ""

\* The modal and its Cancel button are rendered while isGenerating.
CancelGeneration ==
    /\ isGenerating
    /\ handleCancelGeneration
    /\ calls' = [c \in CallIds |->
                    IF InFlight(c) THEN [calls[c] EXCEPT !.cancelled = TRUE] ELSE calls[c]]
    /\ alert' = NoAlert
    /\ UNCHANGED <<selectedText, showVideoPlayer, currentVideoUrl, showExplanationViewer,
                   showOcrPanel, ocrPanelMinimized, latestOcrResult, sentRequest, error>>

\* <VideoPlayer onClose={() => setShowVideoPlayer(false)}>
CloseVideoPlayer ==
    /\ showVideoPlayer
    /\ showVideoPlayer' = FALSE
    /\ alert' = NoAlert
    /\ UNCHANGED <<selectedText, isGenerating, generationProgress, generationMessage,
                   currentTaskId, currentVideoUrl, showExplanationViewer, showOcrPanel,
                   ocrPanelMinimized, latestOcrResult, calls, sentRequest, error>>

\* <ExplanationViewer onClose={() => setShowExplanationViewer(false)}>
CloseExplanationViewer ==
    /\ showExplanationViewer
    /\ showExplanationViewer' = FALSE
    /\ alert' = NoAlert
    /\ UNCHANGED <<selectedText, isGenerating, generationProgress, generationMessage,
                   currentTaskId, showVideoPlayer, currentVideoUrl, showOcrPanel,
                   ocrPanelMinimized, latestOcrResult, calls, sentRequest, error>>

\* Bodies POST /generate-from-latex may answer call c with: task_id or scene_name
\* names the result, video_path is absolute, relative or absent.
LatexBodies(c) ==
    {[success |-> ok, task_id |-> ids[1], scene_name |-> ids[2], video_path |-> v] :
        ok \in BOOLEAN,
        ids \in {<<c, UndefinedTask>>, <<UndefinedTask, c>>, <<UndefinedTask, UndefinedTask>>},
        v \in {"", "/api/videos/a.mp4", "media/a.mp4"}}

LatexNets(c) ==
    {FetchFailed, HttpResponse(500, InvalidJson), HttpResponse(200, InvalidJson),
     HttpResponse(200, NullJson)}
    \cup {HttpResponse(200, b) : b \in LatexBodies(c)}

\* result.task_id || result.scene_name
taskOrScene(result) ==
    IF result.task_id # UndefinedTask THEN result.task_id ELSE result.scene_name

\* The video URL built in the 500 ms callback, without the host prefix.
latexVideoUrl(videoPath) ==
    IF videoPath = "/api/videos/a.mp4" THEN videoPath ELSE apiVideoPath(videoPath)

\* OCR panel Visualize onClick up to its await; the panel's buttons are rendered while
\* showOcrPanel && latestOcrResult and the panel is not minimized
PanelVisualize ==
    /\ showOcrPanel /\ latestOcrResult # "null" /\ ~ocrPanelMinimized
    /\ \E c \in CallIds : FreeCall(c) /\ calls' = [calls EXCEPT ![c].pc = "latex"]
    /\ sentRequest' = [endpoint |-> "/generate-from-latex",
                       options |-> [quality |-> "medium"],
                       body |-> generateFromLatexBody(latestOcrResult,
                                                      [quality |-> "medium"])]
    /\ isGenerating' = TRUE
    /\ generationProgress' = 0
    /\ generationMessage' = "Generating Manim animation from LaTeX..."
    /\ alert' = NoAlert
    /\ UNCHANGED <<selectedText, currentTaskId, showVideoPlayer, currentVideoUrl,
                   showExplanationViewer, showOcrPanel, ocrPanelMinimized, latestOcrResult,
                   error>>

\* OCR panel Visualize onClick after `await mathVideoAPI.generateFromLatex(...)`: the
\* success branch, or the catch block (also entered by `throw` on success false and by
\* reading a property of a null body)
LatexResponds(c) ==
    /\ calls[c].pc = "latex"
    /\ \E net \in LatexNets(c) :
        LET response == generateFromLatex(net)
        IN /\ genNet' = net
           /\ IF response.kind = "resolve" /\ response.data # NullJson /\ response.data.success
              THEN /\ currentTaskId' = taskOrScene(response.data)
                   /\ generationMessage' = "Video generated successfully!"
                   /\ generationProgress' = 100
                   /\ calls' = [calls EXCEPT ![c].pc = "delay",
                                             ![c].taskId = taskOrScene(response.data),
                                             ![c].videoPath = response.data.video_path]
                   /\ UNCHANGED <<error, isGenerating>>
              ELSE /\ error' = "Video Generation Failed"
                   /\ isGenerating' = FALSE
                   /\ calls' = [calls EXCEPT ![c] = Finished("none")]
                   /\ UNCHANGED <<currentTaskId, generationMessage, generationProgress>>
    /\ alert' = NoAlert
    /\ UNCHANGED <<selectedText, showVideoPlayer, currentVideoUrl, showExplanationViewer,
                   showOcrPanel, ocrPanelMinimized, latestOcrResult, sentRequest>>

\* The 500 ms callback: setIsGenerating(false), then the URL is built from
\* result.video_path (reading it when absent throws before the player is opened)
LatexDelayFires(c) ==
    /\ calls[c].pc = "delay"
    /\ isGenerating' = FALSE
    /\ IF calls[c].videoPath = ""
       THEN UNCHANGED <<currentVideoUrl, showVideoPlayer>>
       ELSE /\ currentVideoUrl' = latexVideoUrl(calls[c].videoPath)
            /\ showVideoPlayer' = TRUE
    /\ calls' = [calls EXCEPT ![c] = Finished("none")]
    /\ alert' = NoAlert
    /\ UNCHANGED <<selectedText, generationProgress, generationMessage, currentTaskId,
                   showExplanationViewer, showOcrPanel, ocrPanelMinimized, latestOcrResult,
                   sentRequest, error>>

\* FloatingButton: the two selects, and the buttons that open and close the options
SetDifficulty ==
    /\ showOptions
    /\ \E d \in DifficultyLevels : difficulty' = d
    /\ UNCHANGED <<quality, showOptions>>

SetQuality ==
    /\ showOptions
    /\ \E q \in VideoQualities : quality' = q
    /\ UNCHANGED <<difficulty, showOptions>>

ToggleOptions ==
    /\ showOptions' = ~showOptions
    /\ UNCHANGED <<difficulty, quality>>

\* --------------------------------------------------------- OCR selection
MaxOcrCalls == 2     \* OCR extractions started in one run

VARIABLES
    ocrMode,            \* useState(false)
    ocrResults,         \* useState([]): the inline results, oldest first
    ocrLoading,         \* useState(false)
    lastSelectionData,  \* useState(null)
    ocrCalls,           \* the performOcrExtraction calls, by call id
    ocrNet              \* environment: what the network gave the last answered call

ocrVars == <<ocrMode, ocrResults, ocrLoading, lastSelectionData, ocrCalls, ocrNet>>

OcrCallIds == 1..MaxOcrCalls

\* What OCRSelectionOverlay hands to onSelection: null, a selection whose capture
\* failed (no imageData), or a selection with its image.
NullSelection == [json |-> "null"]
SelectionData ==
    {NullSelection, [imageData |-> "", rect |-> 1], [imageData |-> "data:image/png", rect |-> 1],
     [imageData |-> "data:image/png", rect |-> 2]}

\* !selectionData || !selectionData.imageData
NoImageData(selectionData) ==
    selectionData = NullSelection \/ selectionData.imageData = ""

InitOcr ==
    /\ ocrMode = FALSE
    /\ ocrResults = <<>>
    /\ ocrLoading = FALSE
    /\ lastSelectionData = NullSelection
    /\ ocrCalls = [c \in OcrCallIds |-> "idle"]
    /\ ocrNet = NotYet

\* The lowest OCR call id not used yet.
FreeOcrCall(c) ==
    /\ ocrCalls[c] = "idle"
    /\ \A d \in OcrCallIds : d < c => ocrCalls[d] # "idle"

\* toggleOcrMode that keeps the results when OCR mode is left
toggleOcrModeKeepsResults ==
    /\ ocrMode' = ~ocrMode
    /\ UNCHANGED <<ocrResults, lastSelectionData>>

\* toggleOcrMode
toggleOcrMode ==
    /\ ocrMode' = ~ocrMode
    /\ IF ocrMode
       THEN /\ ocrResults' = <<>>
            /\ lastSelectionData' = NullSelection
       ELSE UNCHANGED <<ocrResults, lastSelectionData>>

\* The toolbar's OCR button (onToggleOcr)
ToggleOcr ==
    /\ toggleOcrMode
    /\ alert' = NoAlert
    /\ UNCHANGED <<ocrLoading, ocrCalls, ocrNet, showOcrPanel, ocrPanelMinimized,
                   latestOcrResult, error>>

\* performOcrExtraction that leaves the selection overlay open
performOcrExtractionKeepsOverlay(selectionData) ==
    IF selectionData.imageData = ""
    THEN UNCHANGED <<ocrMode, ocrLoading, ocrCalls>>
    ELSE /\ UNCHANGED ocrMode
         /\ ocrLoading' = TRUE
         /\ \E c \in OcrCallIds :
               FreeOcrCall(c) /\ ocrCalls' = [ocrCalls EXCEPT ![c] = "extract"]

\* performOcrExtraction(selectionData) up to its await: without image data it returns
\* at once, otherwise the overlay is closed and the request is sent.
performOcrExtraction(selectionData) ==
    IF selectionData.imageData = ""
    THEN UNCHANGED <<ocrMode, ocrLoading, ocrCalls>>
    ELSE /\ ocrMode' = FALSE
         /\ ocrLoading' = TRUE
         /\ \E c \in OcrCallIds :
               FreeOcrCall(c) /\ ocrCalls' = [ocrCalls EXCEPT ![c] = "extract"]

\* handleOcrSelection that stores the selection before it tests it
handleOcrSelectionStoresFirst(selectionData) ==
    IF NoImageData(selectionData)
    THEN /\ alert' = "Failed to capture selection. Please try selecting a larger area."
         /\ lastSelectionData' = selectionData
         /\ UNCHANGED <<ocrMode, ocrLoading, ocrCalls>>
    ELSE /\ lastSelectionData' = selectionData
         /\ performOcrExtraction(selectionData)
         /\ alert' = NoAlert

\* handleOcrSelection(selectionData)
handleOcrSelection(selectionData) ==
    IF NoImageData(selectionData)
    THEN /\ alert' = "Failed to capture selection. Please try selecting a larger area."
         /\ UNCHANGED <<ocrMode, ocrLoading, ocrCalls, lastSelectionData>>
    ELSE /\ lastSelectionData' = selectionData
         /\ performOcrExtraction(selectionData)
         /\ alert' = NoAlert

\* The overlay is rendered while file && ocrMode.
OcrSelection ==
    /\ file # NullFile /\ ocrMode
    /\ \E selectionData \in SelectionData : handleOcrSelection(selectionData)
    /\ UNCHANGED <<ocrResults, ocrNet, showOcrPanel, ocrPanelMinimized, latestOcrResult,
                   error>>

\* Bodies POST /extract-latex may answer with: formulas is a list of LaTeX strings.
OcrBodies ==
    {[success |-> ok, formulas |-> fs, latex |-> l] :
        ok \in BOOLEAN, fs \in {<<>>, <<"a^2">>, <<"a^2", "b^2">>}, l \in {"", " ", "x^2"}}

OcrNets ==
    {FetchFailed, HttpResponse(500, InvalidJson), HttpResponse(200, InvalidJson),
     HttpResponse(200, NullJson)}
    \cup {HttpResponse(200, b) : b \in OcrBodies}

\* String.prototype.trim on the latex strings drawn here
trimLatex(latex) == IF latex = " " THEN "" ELSE latex

\* results.formulas && results.formulas.length > 0
hasFormulas(results) == Len(results.formulas) > 0

\* hasLatex without the trim
hasLatexNoTrim(results) == results.latex # ""

\* results.latex && results.latex.trim().length > 0
hasLatex(results) == results.latex # "" /\ trimLatex(results.latex) # ""

\* hasFormulas ? results.formulas : (hasLatex ? [results.latex] : [])
formulasArray(results) ==
    IF hasFormulas(results) THEN results.formulas
    ELSE IF hasLatex(results) THEN <<results.latex>> ELSE <<>>

\* formulasArray.map(...): one result per formula; the id stands for
\* `ocr-${Date.now()}-${index}` with the call number as the time stamp
newOcrResults(c, formulas) ==
    [i \in 1..Len(formulas) |-> [id |-> <<c, i>>, latexContent |-> formulas[i]]]

\* a setOcrResults that replaces the list
replaceOcrResults(prev, new) == new

\* setOcrResults(prev => [...prev, ...newOcrResults])
appendOcrResults(prev, new) == prev \o new

\* The catch block of performOcrExtraction
ocrCatch ==
    /\ error' = "OCR Processing Error"
    /\ UNCHANGED <<ocrResults, latestOcrResult, showOcrPanel, ocrPanelMinimized>>

\* performOcrExtraction after `await ocrAPI.extractContent(...)` resolved
ocrExtracted(c, results) ==
    IF ~results.success
    THEN /\ error' = "OCR Extraction Failed"
         /\ UNCHANGED <<ocrResults, latestOcrResult, showOcrPanel, ocrPanelMinimized>>
    ELSE IF ~hasFormulas(results) /\ ~hasLatex(results)
    THEN /\ error' = "No Mathematical Content Detected"
         /\ UNCHANGED <<ocrResults, latestOcrResult, showOcrPanel, ocrPanelMinimized>>
    ELSE IF Len(formulasArray(results)) > 0
    THEN /\ ocrResults' = appendOcrResults(ocrResults,
                                           newOcrResults(c, formulasArray(results)))
         /\ latestOcrResult' = formulasArray(results)[1]
         /\ showOcrPanel' = TRUE
         /\ ocrPanelMinimized' = FALSE
         /\ UNCHANGED error
    ELSE UNCHANGED <<error, ocrResults, latestOcrResult, showOcrPanel, ocrPanelMinimized>>

\* The OCR answer arrives, in a performOcrExtraction without its `finally`: only the
\* two early returns set ocrLoading false
OcrRespondsNoFinally(c) ==
    /\ ocrCalls[c] = "extract"
    /\ \E net \in OcrNets :
        LET response == extractContent(net)
        IN /\ ocrNet' = net
           /\ IF response.kind = "resolve" /\ response.data # NullJson
              THEN /\ ocrExtracted(c, response.data)
                   /\ ocrLoading' = IF Len(formulasArray(response.data)) > 0
                                       /\ response.data.success
                                    THEN ocrLoading ELSE FALSE
              ELSE ocrCatch /\ UNCHANGED ocrLoading
    /\ ocrCalls' = [ocrCalls EXCEPT ![c] = "done"]
    /\ alert' = NoAlert
    /\ UNCHANGED <<ocrMode, lastSelectionData>>

\* The OCR answer arrives; every path sets ocrLoading false (the early returns do it
\* themselves, the others in `finally`).
OcrResponds(c) ==
    /\ ocrCalls[c] = "extract"
    /\ \E net \in OcrNets :
        LET response == extractContent(net)
        IN /\ ocrNet' = net
           /\ IF response.kind = "resolve" /\ response.data # NullJson
              THEN ocrExtracted(c, response.data)
              ELSE ocrCatch
    /\ ocrLoading' = FALSE
    /\ ocrCalls' = [ocrCalls EXCEPT ![c] = "done"]
    /\ alert' = NoAlert
    /\ UNCHANGED <<ocrMode, lastSelectionData>>

\* handleRemoveOcrButton(ocrId), the onRemove of an inline button
handleRemoveOcrButton(ocrId) ==
    ocrResults' = SelectSeq(ocrResults, LAMBDA result : result.id # ocrId)

RemoveOcrButton ==
    /\ file # NullFile
    /\ \E i \in 1..Len(ocrResults) : handleRemoveOcrButton(ocrResults[i].id)
    /\ alert' = NoAlert
    /\ UNCHANGED <<ocrMode, ocrLoading, lastSelectionData, ocrCalls, ocrNet, showOcrPanel,
                   ocrPanelMinimized, latestOcrResult, error>>

\* The panel's Close buttons: setShowOcrPanel(false)
CloseOcrPanel ==
    /\ showOcrPanel /\ latestOcrResult # "null"
    /\ showOcrPanel' = FALSE
    /\ alert' = NoAlert
    /\ UNCHANGED <<ocrVars, ocrPanelMinimized, latestOcrResult, error>>

\* The panel's minimize button: setOcrPanelMinimized(!ocrPanelMinimized)
MinimizeOcrPanel ==
    /\ showOcrPanel /\ latestOcrResult # "null"
    /\ ocrPanelMinimized' = ~ocrPanelMinimized
    /\ alert' = NoAlert
    /\ UNCHANGED <<ocrVars, showOcrPanel, latestOcrResult, error>>

\* ---------------------------------------------------------- specifications
\* The PDF state the generation workflow leaves alone.
pdfOnly == <<file, docState, numPages, isLoadingPdf, loadingProgress, loadedPages,
             pageCache, loadingMessage, pageLoadPromises, preloadTimeouts,
             completionTimers, messageTimers, pageNotified>>

vars == <<pdfVars, fileInput, healthVars, apiVars, buttonVars, genVars, ocrVars>>

Init == InitPdf /\ fileInput = NoInput /\ InitHealth /\ InitApi /\ InitButton /\ InitGen /\ InitOcr

\* A one-page document is open and rendered: its load has finished and its timers
\* have fired.
InitViewingPdf ==
    /\ file = 1
    /\ docState = "loaded"
    /\ numPages = 1
    /\ isLoadingPdf = FALSE
    /\ loadingProgress = 100
    /\ loadedPages = {1}
    /\ pageCache = {1}
    /\ loadingMessage = NoMsg
    /\ error = NoError
    /\ pageLoadPromises = {}
    /\ preloadTimeouts = <<>>
    /\ completionTimers = 0
    /\ messageTimers = 0
    /\ pageNotified = {1}

InitViewing == InitViewingPdf /\ fileInput = NoInput /\ InitHealth /\ InitApi /\ InitButton /\ InitGen /\ InitOcr

\* The viewer after an OCR extraction has put its result in the OCR panel.
InitPanel ==
    /\ InitViewingPdf /\ fileInput = NoInput /\ InitHealth /\ InitApi /\ InitButton
    /\ ocrMode = FALSE
    /\ ocrResults = <<[id |-> <<1, 1>>, latexContent |-> "x^2"]>>
    /\ ocrLoading = FALSE
    /\ lastSelectionData = [imageData |-> "data:image/png", rect |-> 1]
    /\ ocrCalls = [c \in OcrCallIds |-> IF c = 1 THEN "done" ELSE "idle"]
    /\ ocrNet = HttpResponse(200, [success |-> TRUE, formulas |-> <<>>, latex |-> "x^2"])
    /\ selectedText = <<>>
    /\ isGenerating = FALSE
    /\ generationProgress = 0
    /\ generationMessage = ""
    /\ currentTaskId = NullTask
    /\ showVideoPlayer = FALSE
    /\ currentVideoUrl = ""
    /\ showExplanationViewer = FALSE
    /\ showOcrPanel = TRUE
    /\ ocrPanelMinimized = FALSE
    /\ latestOcrResult = "x^2"
    /\ calls = [c \in CallIds |-> IdleCall]
    /\ alert = NoAlert
    /\ sentRequest = Undefined
    /\ genNet = NotYet

NextPdf ==
    \/ FileChange /\ UNCHANGED <<fileInput, ocrVars, healthVars, apiVars, buttonVars, genVars>>
    \/ DocumentLoadSuccess /\ UNCHANGED <<fileInput, ocrVars, healthVars, apiVars, buttonVars, genVars>>
    \/ DocumentLoadError /\ UNCHANGED <<fileInput, ocrVars, healthVars, apiVars, buttonVars, genVars>>
    \/ PageLoadSuccess /\ UNCHANGED <<fileInput, ocrVars, healthVars, apiVars, buttonVars, genVars>>
    \/ PageLoadError /\ UNCHANGED <<fileInput, ocrVars, healthVars, apiVars, buttonVars, genVars>>
    \/ CompletionTimerFires /\ UNCHANGED <<fileInput, ocrVars, healthVars, apiVars, buttonVars, genVars>>
    \/ PreloadTimeoutFires /\ UNCHANGED <<fileInput, ocrVars, healthVars, apiVars, buttonVars, genVars>>
    \/ MessageTimerFires /\ UNCHANGED <<fileInput, ocrVars, healthVars, apiVars, buttonVars, genVars>>
    \/ SkipLoading /\ UNCHANGED <<fileInput, ocrVars, healthVars, apiVars, buttonVars, genVars>>
    \/ CancelLoading /\ UNCHANGED <<fileInput, ocrVars, healthVars, apiVars, buttonVars, genVars>>
    \/ TryAnotherFile /\ UNCHANGED <<fileInput, ocrVars, healthVars, apiVars, buttonVars, genVars>>
    \/ DismissError /\ UNCHANGED <<fileInput, ocrVars, healthVars, apiVars, buttonVars, genVars>>

NextHealth ==
    \/ BackendHealthArrives /\ UNCHANGED <<fileInput, ocrVars, pdfVars, apiVars, buttonVars, genVars>>
    \/ OcrHealthArrives /\ UNCHANGED <<fileInput, ocrVars, pdfVars, apiVars, buttonVars, genVars>>

NextGen ==
    \/ TextSelection /\ genNet' = NotYet /\ UNCHANGED <<fileInput, ocrVars, pdfOnly, healthVars, apiVars, buttonVars>>
    \/ FloatingVisualize /\ genNet' = NotYet /\ UNCHANGED <<fileInput, ocrVars, pdfOnly, healthVars, apiVars>>
    \/ PanelVisualize /\ genNet' = NotYet /\ UNCHANGED <<fileInput, ocrVars, pdfOnly, healthVars, apiVars, buttonVars>>
    \/ CancelGeneration /\ genNet' = NotYet /\ UNCHANGED <<fileInput, ocrVars, pdfOnly, healthVars, apiVars, buttonVars>>
    \/ CloseVideoPlayer /\ genNet' = NotYet /\ UNCHANGED <<fileInput, ocrVars, pdfOnly, healthVars, apiVars, buttonVars>>
    \/ CloseExplanationViewer /\ genNet' = NotYet /\ UNCHANGED <<fileInput, ocrVars, pdfOnly, healthVars, apiVars, buttonVars>>
    \/ \E c \in CallIds : GenerateVideoResponds(c) /\ UNCHANGED <<fileInput, ocrVars, pdfOnly, healthVars, apiVars, buttonVars>>
    \/ \E c \in CallIds : StatusResponds(c) /\ genNet' = NotYet /\ UNCHANGED <<fileInput, ocrVars, pdfOnly, healthVars, apiVars, buttonVars>>
    \/ \E c \in CallIds : PollTimerFires(c) /\ genNet' = NotYet /\ UNCHANGED <<fileInput, ocrVars, pdfOnly, healthVars, apiVars, buttonVars>>
    \/ \E c \in CallIds : ExplanationResponds(c) /\ genNet' = NotYet /\ UNCHANGED <<fileInput, ocrVars, pdfOnly, healthVars, apiVars, buttonVars>>
    \/ \E c \in CallIds : LatexResponds(c) /\ UNCHANGED <<fileInput, ocrVars, pdfOnly, healthVars, apiVars, buttonVars>>
    \/ \E c \in CallIds : LatexDelayFires(c) /\ genNet' = NotYet /\ UNCHANGED <<fileInput, ocrVars, pdfOnly, healthVars, apiVars, buttonVars>>

\* The FloatingButton with the start of a generation and its cancellation.
NextOptions ==
    \/ SetDifficulty /\ UNCHANGED <<fileInput, ocrVars, pdfVars, healthVars, apiVars, genVars>>
    \/ SetQuality /\ UNCHANGED <<fileInput, ocrVars, pdfVars, healthVars, apiVars, genVars>>
    \/ ToggleOptions /\ UNCHANGED <<fileInput, ocrVars, pdfVars, healthVars, apiVars, genVars>>
    \/ TextSelection /\ genNet' = NotYet /\ UNCHANGED <<fileInput, ocrVars, pdfOnly, healthVars, apiVars, buttonVars>>
    \/ FloatingVisualize /\ genNet' = NotYet /\ UNCHANGED <<fileInput, ocrVars, pdfOnly, healthVars, apiVars>>
    \/ CancelGeneration /\ genNet' = NotYet /\ UNCHANGED <<fileInput, ocrVars, pdfOnly, healthVars, apiVars, buttonVars>>
    \/ \E c \in CallIds : GenerateVideoResponds(c) /\ UNCHANGED <<fileInput, ocrVars, pdfOnly, healthVars, apiVars, buttonVars>>

NextApi ==
    \/ CallGenerateVideo /\ UNCHANGED <<fileInput, ocrVars, pdfVars, healthVars, buttonVars, genVars>>
    \/ CallGenerateFromLatex /\ UNCHANGED <<fileInput, ocrVars, pdfVars, healthVars, buttonVars, genVars>>
    \/ CallCheckStatus /\ UNCHANGED <<fileInput, ocrVars, pdfVars, healthVars, buttonVars, genVars>>
    \/ CallCheckSetup /\ UNCHANGED <<fileInput, ocrVars, pdfVars, healthVars, buttonVars, genVars>>
    \/ CallExtractContent /\ UNCHANGED <<fileInput, ocrVars, pdfVars, healthVars, buttonVars, genVars>>
    \/ CallOcrCheckStatus /\ UNCHANGED <<fileInput, ocrVars, pdfVars, healthVars, buttonVars, genVars>>
    \/ CallListVideos /\ UNCHANGED <<fileInput, ocrVars, pdfVars, healthVars, buttonVars, genVars>>

\* The generation state an OCR extraction leaves alone.
genRest == <<selectedText, isGenerating, generationProgress, generationMessage,
             currentTaskId, showVideoPlayer, currentVideoUrl, showExplanationViewer,
             calls, sentRequest, genNet>>

\* OCR mode, selections, extractions and the OCR panel over an open document.
NextOcr ==
    \/ ToggleOcr /\ UNCHANGED <<fileInput, pdfOnly, healthVars, apiVars, buttonVars, genRest>>
    \/ OcrSelection /\ UNCHANGED <<fileInput, pdfOnly, healthVars, apiVars, buttonVars, genRest>>
    \/ \E c \in OcrCallIds : OcrResponds(c) /\ UNCHANGED <<fileInput, pdfOnly, healthVars, apiVars, buttonVars, genRest>>
    \/ RemoveOcrButton /\ UNCHANGED <<fileInput, pdfOnly, healthVars, apiVars, buttonVars, genRest>>
    \/ CloseOcrPanel /\ UNCHANGED <<fileInput, pdfOnly, healthVars, apiVars, buttonVars, genRest>>
    \/ MinimizeOcrPanel /\ UNCHANGED <<fileInput, pdfOnly, healthVars, apiVars, buttonVars, genRest>>

InitAny == Init \/ InitPanel

\* A document of any size up to MaxDocPages has just loaded and preloadAllPages has
\* run: the overlay is up at 0 percent and every page is awaited.
InitRenderingPdf ==
    /\ file = 1
    /\ docState = "loaded"
    /\ numPages \in 1..MaxDocPages
    /\ isLoadingPdf = TRUE
    /\ loadingProgress = 0
    /\ loadedPages = {}
    /\ pageCache = {}
    /\ loadingMessage = Msg("Rendering N pages...", numPages, 0)
    /\ error = NoError
    /\ pageLoadPromises = 1..numPages
    /\ preloadTimeouts = <<[total |-> numPages, currentLoaded |-> 0]>>
    /\ completionTimers = 0
    /\ messageTimers = 0
    /\ pageNotified = {}

InitRendering ==
    /\ InitRenderingPdf /\ fileInput = NoInput /\ InitHealth /\ InitApi /\ InitButton
    /\ InitGen /\ InitOcr

\* The pages of one document report in order until the overlay closes.
NextProgress ==
    \/ PageLoadSuccessInOrder /\ UNCHANGED <<fileInput, ocrVars, healthVars, apiVars, buttonVars, genVars>>
    \/ CompletionTimerFires /\ UNCHANGED <<fileInput, ocrVars, healthVars, apiVars, buttonVars, genVars>>
    \/ MessageTimerFires /\ UNCHANGED <<fileInput, ocrVars, healthVars, apiVars, buttonVars, genVars>>

SpecProgress == InitRendering /\ [][NextProgress]_vars

NextFile ==
    \/ FileInputChange /\ UNCHANGED <<ocrVars, healthVars, apiVars, buttonVars, genVars>>
    \/ DocumentLoadSuccess /\ fileInput' = NoInput /\ UNCHANGED <<ocrVars, healthVars, apiVars, buttonVars, genVars>>
    \/ PageLoadSuccess /\ fileInput' = NoInput /\ UNCHANGED <<ocrVars, healthVars, apiVars, buttonVars, genVars>>
    \/ SkipLoading /\ fileInput' = NoInput /\ UNCHANGED <<ocrVars, healthVars, apiVars, buttonVars, genVars>>
    \/ CancelLoading /\ fileInput' = NoInput /\ UNCHANGED <<ocrVars, healthVars, apiVars, buttonVars, genVars>>

SpecFile == Init /\ [][NextFile]_vars

SpecPdf == Init /\ [][NextPdf]_vars

SpecHealth == Init /\ [][NextHealth]_vars

\* The generation workflow, from a fresh viewer or from one whose OCR panel is open.
SpecGen == InitAny /\ [][NextGen]_vars

SpecOptions == Init /\ [][NextOptions]_vars

\* Each API function, called once on every network outcome.
SpecApi == Init /\ [][NextApi]_vars

SpecOcr == InitViewing /\ [][NextOcr]_vars

\* ------------------------------------------------------------------ claims

\* C1 (as claimed): once handleCancelGeneration has run, no later step of a call that
\* was in flight at that moment changes isGenerating, generationProgress or
\* generationMessage, or opens the video player or the explanation viewer.
C1_CancelledTaskIsSilent ==
    [][\A c \in CallIds :
        (calls[c].cancelled /\ calls'[c] # calls[c]) =>
            /\ isGenerating' = isGenerating
            /\ generationProgress' = generationProgress
            /\ generationMessage' = generationMessage
            /\ showVideoPlayer' => showVideoPlayer
            /\ showExplanationViewer' => showExplanationViewer]_vars

\* C2: the step in which a task's status request is answered with a status other than
\* 'generating', or fails, sets isGenerating to false and parks the task where no status
\* request is issued; and after such an answer the task never polls or waits to poll.
C2_PollingEnds ==
    [][\A c \in CallIds :
        /\ (calls[c].pc = "status" /\ calls'[c].pc # "status"
                /\ calls'[c].lastStatus # "generating") =>
              (isGenerating' = FALSE /\ calls'[c].pc \in {"explain", "done"})
        /\ (calls[c].lastStatus \notin {"none", "generating"}) =>
              calls'[c].pc \notin {"status", "wait"}]_vars

\* C2 witness: a task has ended on a 'failed' answer and isGenerating is false.
C2_Witness ==
    \E c \in CallIds :
        calls[c].pc = "done" /\ calls[c].lastStatus = "failed" /\ ~isGenerating

\* C3 (as claimed): a 'completed' answer with an artifact ends with isGenerating false
\* and with the video player shown, the explanation viewer shown or the user alerted.
C3_CompletedIsDisplayed ==
    [][\A c \in CallIds :
        /\ (calls[c].pc = "status" /\ calls'[c].pc \in {"explain", "done"}
                /\ calls'[c].lastStatus = "completed") =>
              /\ isGenerating' = FALSE
              /\ calls'[c].pc = "done" => (showVideoPlayer' \/ alert' # NoAlert)
        /\ (calls[c].pc = "explain" /\ calls'[c].pc = "done") =>
              (showExplanationViewer' \/ alert' # NoAlert)]_vars

C5_AllPagesNotifiedEndsLoading ==
    (docState = "loaded" /\ Truthy(numPages) /\ pageNotified = 1..numPages /\ isLoadingPdf)
        => completionTimers > 0

\* C5 witness: all pages have notified, the last counted one at a moment the loading
\* state was up, and the completion callback has since turned the loading state off.
C5_Witness ==
    /\ docState = "loaded" /\ numPages = 2 /\ pageNotified = {1, 2}
    /\ ~isLoadingPdf /\ loadingProgress = 100
    /\ loadingMessage.kind = "All pages ready!"

\* C6: when a pending 45 s timeout fires (no page notifies in that step), isLoadingPdf
\* becomes false and the 'Loaded X/N pages. Others will load as needed.' message is
\* set with N the page count that preload was started with; and while the loading
\* state of a loaded document is up, a 45 s timeout or a completion callback is pending.
C6_TimeoutEndsLoading ==
    /\ []((docState = "loaded" /\ isLoadingPdf) =>
            ((preloadTimeouts # <<>>) \/ (completionTimers > 0)))
    /\ [][(preloadTimeouts # <<>> /\ preloadTimeouts' = Tail(preloadTimeouts)
               /\ pageLoadPromises' = pageLoadPromises) =>
             /\ isLoadingPdf' = FALSE
             /\ loadingMessage'.kind = "Loaded X/N pages. Others will load as needed."
             /\ loadingMessage'.b = Head(preloadTimeouts).total]_vars

\* C6 witness: the timeout message is up for a loaded document with a page still
\* outstanding, and the loading state is off.
C6_Witness ==
    /\ docState = "loaded" /\ pageLoadPromises # {} /\ ~isLoadingPdf
    /\ loadingMessage.kind = "Loaded X/N pages. Others will load as needed."
    /\ loadingMessage.b = numPages

\* The health answer is JSON with status 'healthy' and the named service true.
HealthyWith(net, service) ==
    /\ net.kind = "http" /\ JsonParses(net) /\ net.body # NullJson
    /\ net.body.status = "healthy"
    /\ net.body.services # Undefined
    /\ net.body.services[service]

\* C7: once a health check has finished its status is not 'checking', and it is 'ready'
\* exactly when the answer has status 'healthy' and services.manim (services.ocr for
\* the OCR check) true.
C7_ReadyIffHealthy ==
    /\ backendHealth # NotYet =>
          /\ backendStatus # "checking"
          /\ backendStatus = "ready" <=> HealthyWith(backendHealth, "manim")
    /\ ocrHealth # NotYet =>
          /\ ocrBackendStatus # "checking"
          /\ ocrBackendStatus = "ready" <=> HealthyWith(ocrHealth, "ocr")

\* C7 witness: both checks finished on a healthy backend whose manim service is up and
\* whose ocr service is down.
C7_Witness ==
    /\ backendHealth = HttpResponse(200, [status |-> "healthy",
                                          services |-> [manim |-> TRUE, ocr |-> FALSE]])
    /\ ocrHealth = backendHealth
    /\ backendStatus = "ready"
    /\ ocrBackendStatus = "error"

\* C8 (as claimed): a health request that fails because the backend is unreachable
\* leaves backendStatus (ocrBackendStatus) at 'offline'.
C8_UnreachableIsOffline ==
    /\ backendHealth = FetchFailed => backendStatus = "offline"
    /\ ocrHealth = FetchFailed => ocrBackendStatus = "offline"

\* C9 (as claimed): the generate-video request carries the difficulty and the quality
\* of the options FloatingButton passed to onVisualize.
C9_OptionsReachRequest ==
    (sentRequest # Undefined /\ sentRequest.endpoint = "/generate-video") =>
        /\ "difficulty" \in DOMAIN sentRequest.body
        /\ sentRequest.body.difficulty = sentRequest.options.difficulty
        /\ sentRequest.body.quality = sentRequest.options.quality

\* The API functions that rethrow.
ThrowingFunctions ==
    {"generateVideo", "generateFromLatex", "checkStatus", "extractContent", "listVideos"}

\* C10: generateVideo, generateFromLatex, checkStatus, extractContent and ocrAPI's
\* listVideos reject when the fetch fails or the response is not ok.
C10_FailuresReject ==
    (apiFunction \in ThrowingFunctions /\ (apiNet.kind = "fail" \/ ~ResponseOk(apiNet)))
        => apiResult.kind = "reject"

\* C10 witness: generateVideo got a 500 answer with a JSON body and rejected.
C10_Witness ==
    /\ apiFunction = "generateVideo"
    /\ apiNet = HttpResponse(500, [success |-> FALSE, error |-> "Internal error"])
    /\ apiResult.kind = "reject"

\* The OCR answer is JSON with success true and at least one formula or a latex
\* string that is not blank.
OcrHasContent(net) ==
    /\ net.kind = "http" /\ ResponseOk(net) /\ JsonParses(net) /\ net.body # NullJson
    /\ net.body.success
    /\ (Len(net.body.formulas) >= 1 \/ net.body.latex \notin {"", " "})

\* The formulas such an answer delivers: its formulas, or else its latex string.
OcrDelivered(net) ==
    IF Len(net.body.formulas) >= 1 THEN net.body.formulas ELSE <<net.body.latex>>

C12_FailedExtractionKeepsResults ==
    [][\A c \in OcrCallIds :
        (ocrCalls[c] = "extract" /\ ocrCalls'[c] = "done" /\ ~OcrHasContent(ocrNet')) =>
            /\ error' # NoError
            /\ ocrResults' = ocrResults
            /\ latestOcrResult' = latestOcrResult
            /\ showOcrPanel' = showOcrPanel]_vars

\* C12 witness: after one result was delivered, a second extraction came back with a
\* blank latex string and no formulas; the error is set and the result is still there.
C12_Witness ==
    /\ ocrCalls[2] = "done"
    /\ ocrNet = HttpResponse(200, [success |-> TRUE, formulas |-> <<>>, latex |-> " "])
    /\ error = "No Mathematical Content Detected"
    /\ Len(ocrResults) = 1
    /\ latestOcrResult = "a^2"

\* C13: a step that turns ocrMode from true to false by toggleOcrMode (no extraction
\* starts in it) empties ocrResults and sets lastSelectionData to null; a step that
\* turns ocrMode from false to true leaves ocrResults unchanged.
C13_LeavingOcrModeClearsResults ==
    [][/\ (ocrMode /\ ~ocrMode' /\ ocrCalls' = ocrCalls) =>
              (ocrResults' = <<>> /\ lastSelectionData' = NullSelection)
       /\ (~ocrMode /\ ocrMode') => ocrResults' = ocrResults]_vars

\* C13 witness: OCR mode was switched on again with a result present, and is on with
\* that result kept.
C13_Witness ==
    /\ ocrMode /\ Len(ocrResults) = 2
    /\ \E c \in OcrCallIds : ocrCalls[c] = "done"

\* C14 (as claimed): when a 45 s preload timeout fires while the document is loaded
\* and its loading state is up, the message 'Loaded X/N pages. Others will load as
\* needed.' has X equal to the number of pages in loadedPages at that moment and N
\* equal to the document's page count.
C14_TimeoutMessageCountsLoadedPages ==
    [][(preloadTimeouts # <<>> /\ preloadTimeouts' = Tail(preloadTimeouts)
            /\ pageLoadPromises' = pageLoadPromises
            /\ docState = "loaded" /\ isLoadingPdf) =>
          /\ loadingMessage'.kind = "Loaded X/N pages. Others will load as needed."
          /\ loadingMessage'.a = Cardinality(loadedPages)
          /\ loadingMessage'.b = numPages]_vars

\* C15: a status request of a task is followed by a scheduled poll (the 2 s timer)
\* if and only if its answer has status 'generating'; the timer then issues the next
\* status request for the same task id; every other answer and every thrown error
\* leaves the task without a pending poll and isGenerating false.
C15_PollsAgainIffGenerating ==
    [][\A c \in CallIds :
        /\ (calls[c].pc = "status" /\ calls'[c].pc # "status") =>
              /\ calls'[c].pc = "wait" <=> calls'[c].lastStatus = "generating"
              /\ calls'[c].pc = "wait" => calls'[c].taskId = calls[c].taskId
              /\ calls'[c].pc # "wait" =>
                    (calls'[c].pc \in {"explain", "done"} /\ isGenerating' = FALSE)
        /\ (calls[c].pc = "wait" /\ calls'[c].pc # "wait") =>
              (calls'[c].pc = "status" /\ calls'[c].taskId = calls[c].taskId)]_vars

\* C15 witness: a task is polling again after a 'generating' answer.
C15_Witness ==
    \E c \in CallIds :
        /\ calls[c].pc = "status" /\ calls[c].polls = 2
        /\ calls[c].lastStatus = "generating" /\ calls[c].taskId = c
        /\ isGenerating

\* The generate-video request throws: the fetch fails, the response is not ok, or its
\* body is not JSON.
GenerateThrows(net) ==
    net.kind = "fail" \/ ~ResponseOk(net) \/ ~JsonParses(net)

\* C16: while selectedText is empty or blank no step starts a generation: no call
\* leaves its idle state, no request is sent and isGenerating does not turn true.  And
\* the step in which a generate-video request throws sets isGenerating false, leaves
\* currentTaskId unchanged and ends the call without a status request.
C16_VisualizeWithoutTextOrBackend ==
    [][/\ (Trim(selectedText) = <<>>) =>
              /\ \A c \in CallIds : calls[c].pc = "idle" => calls'[c].pc = "idle"
              /\ sentRequest' = sentRequest
              /\ isGenerating' => isGenerating
       /\ \A c \in CallIds :
              (calls[c].pc = "generate" /\ calls'[c].pc # "generate"
                    /\ GenerateThrows(genNet')) =>
                 /\ isGenerating' = FALSE
                 /\ currentTaskId' = currentTaskId
                 /\ calls'[c].pc = "done"]_vars

\* C16 witness: the generate-video request of a call failed at the network; the call
\* has ended, isGenerating is false and no task id was stored.
C16_Witness ==
    \E c \in CallIds :
        /\ calls[c].pc = "done" /\ genNet = FetchFailed
        /\ ~isGenerating /\ currentTaskId = NullTask
        /\ alert = "Failed to start video generation."

\* The generate-from-latex request resolves with success true.
LatexSucceeds(net) ==
    /\ net.kind = "http" /\ ResponseOk(net) /\ JsonParses(net) /\ net.body # NullJson
    /\ net.body.success

\* C17 (as claimed): when generateFromLatex resolves with success the progress becomes
\* 100, and the 500 ms callback that follows sets isGenerating false and shows the
\* video player; when it throws or resolves with success false, error becomes 'Video
\* Generation Failed', isGenerating becomes false and the video player is not opened.
C17_PanelVisualizeOutcome ==
    [][\A c \in CallIds :
        /\ (calls[c].pc = "latex" /\ calls'[c].pc # "latex" /\ LatexSucceeds(genNet')) =>
              (generationProgress' = 100 /\ calls'[c].pc = "delay")
        /\ (calls[c].pc = "delay" /\ calls'[c].pc # "delay") =>
              (isGenerating' = FALSE /\ showVideoPlayer')
        /\ (calls[c].pc = "latex" /\ calls'[c].pc # "latex" /\ ~LatexSucceeds(genNet')) =>
              /\ error' = "Video Generation Failed"
              /\ isGenerating' = FALSE
              /\ showVideoPlayer' = showVideoPlayer
              /\ calls'[c].pc = "done"]_vars

\* C18 (as claimed): 'Skip & View Now' sets isLoadingPdf false and leaves file,
\* numPages, loadedPages and loadingProgress unchanged; a page that notifies after the
\* skip is still added to loadedPages; and while the 'Preloading skipped' message of
\* the skip is up, no step other than the choice of a file turns the loading state on
\* again.
C18_SkipEndsLoadingForGood ==
    [][/\ (isLoadingPdf' = FALSE
             /\ loadingMessage'.kind = "Preloading skipped. Pages will load as needed."
             /\ loadingMessage' # loadingMessage) =>
              UNCHANGED <<file, numPages, loadedPages, loadingProgress>>
       /\ (~isLoadingPdf /\ docState = "loaded" /\ docState' = "loaded"
             /\ pageNotified' # pageNotified) =>
              loadedPages' = loadedPages \cup (pageNotified' \ pageNotified)
       /\ (loadingMessage.kind = "Preloading skipped. Pages will load as needed."
             /\ docState' # "loading") =>
              ~isLoadingPdf']_vars

\* C19: the step of the overlay's Cancel (the only step that removes the file and
\* leaves the error display as it was) ends with isLoadingPdf false, file null,
\* numPages 0, loadedPages empty and loadingMessage empty.
C19_CancelReturnsToNoDocument ==
    [][(file # NullFile /\ file' = NullFile /\ error' = error) =>
          /\ ~isLoadingPdf'
          /\ numPages' = 0
          /\ loadedPages' = {}
          /\ loadingMessage' = NoMsg]_vars

\* C19 witness: a loaded document with a rendered page was cancelled: no file, page
\* count 0, no loaded pages, no message, and the page map of the cancelled document
\* still there.
C19_Witness ==
    /\ file = NullFile /\ docState = "none" /\ numPages = 0
    /\ ~isLoadingPdf /\ loadedPages = {} /\ loadingMessage = NoMsg
    /\ error = NoError /\ pageCache # {}

\* C20: a change of the file input with no file, or with a file whose type is not
\* application/pdf, changes no state; with a PDF it sets isLoadingPdf true,
\* loadingProgress 0, loadedPages and pageCache empty, and file to the chosen file.
C20_FileChangeOnlyForPdf ==
    [][fileInput' # NoInput =>
          IF fileInput'.file # NullFile /\ fileInput'.type = "application/pdf"
          THEN /\ isLoadingPdf' /\ loadingProgress' = 0
               /\ loadedPages' = {} /\ pageCache' = {}
               /\ file' = fileInput'.file
          ELSE UNCHANGED <<pdfVars, healthVars, apiVars, buttonVars, genVars, ocrVars>>]_vars

\* C20 witness: with a document open and rendered, a file that is not a PDF was
\* chosen and the document is still there.
C20_Witness ==
    /\ fileInput = [file |-> 1, type |-> "image/png"]
    /\ file = 1 /\ docState = "loaded" /\ loadedPages = {1} /\ ~isLoadingPdf

\* C21: the step in which a performOcrExtraction call that sent its request ends
\* (successful result, success false, empty result or thrown error) leaves ocrLoading
\* false; and ocrLoading is never true without such a call in flight.
C21_ExtractionEndsLoading ==
    /\ [](ocrLoading => \E c \in OcrCallIds : ocrCalls[c] = "extract")
    /\ [][\A c \in OcrCallIds :
            (ocrCalls[c] = "extract" /\ ocrCalls'[c] = "done") => ~ocrLoading']_vars

\* C21 witness: the second extraction ended in a thrown error (the fetch failed) after
\* the first had delivered a result, and ocrLoading is false.
C21_Witness ==
    /\ ocrCalls[2] = "done"
    /\ ocrNet = FetchFailed
    /\ error = "OCR Processing Error"
    /\ Len(ocrResults) > 0
    /\ ~ocrLoading

\* C22: an OCR selection without image data (the step that raises the alert 'Failed
\* to capture selection...') sends no OCR request and changes no state: ocrMode,
\* ocrLoading, ocrResults, lastSelectionData and everything else keep their values.
C22_SelectionWithoutImageOnlyAlerts ==
    [][alert' = "Failed to capture selection. Please try selecting a larger area." =>
          UNCHANGED <<ocrMode, ocrLoading, ocrResults, lastSelectionData, ocrCalls, ocrNet,
                      showOcrPanel, ocrPanelMinimized, latestOcrResult, genRest,
                      pdfVars, fileInput, healthVars, apiVars, buttonVars>>]_vars

\* C22 witness: with OCR mode on again after an extraction that delivered a result, a
\* selection without image data was made: the alert is up, the result, the stored
\* selection and OCR mode are as before.
C22_Witness ==
    /\ alert = "Failed to capture selection. Please try selecting a larger area."
    /\ ocrMode /\ ~ocrLoading
    /\ Len(ocrResults) = 1
    /\ lastSelectionData # NullSelection
    /\ ocrCalls[1] = "done" /\ ocrCalls[2] = "idle"

\* C23: the step that sends an OCR request ends with ocrMode off and ocrLoading on;
\* the step that ends an extraction leaves ocrMode as it was; and ocrMode goes from
\* off to on only in a step that changes nothing else (the toolbar toggle).
C23_OcrModeOffUntilToggled ==
    [][/\ \A c \in OcrCallIds :
            (ocrCalls[c] = "idle" /\ ocrCalls'[c] = "extract") =>
                (~ocrMode' /\ ocrLoading')
       /\ \A c \in OcrCallIds :
            (ocrCalls[c] = "extract" /\ ocrCalls'[c] = "done") => ocrMode' = ocrMode
       /\ (~ocrMode /\ ocrMode') =>
            UNCHANGED <<ocrLoading, ocrResults, lastSelectionData, ocrCalls, ocrNet,
                        showOcrPanel, ocrPanelMinimized, latestOcrResult, genRest,
                        pdfVars, fileInput, healthVars, apiVars, buttonVars>>]_vars

\* C23 witness: an extraction started from OCR mode has finished with two results and
\* OCR mode is still off.
C23_Witness ==
    /\ ocrCalls[1] = "done" /\ ocrCalls[2] = "idle"
    /\ ~ocrMode /\ ~ocrLoading
    /\ Len(ocrResults) = 2

\* C24 (as claimed): for every document size, while the overlay shows the progress and
\* fewer pages than the document has are in loadedPages, loadingProgress is below 100.
C24_ProgressBelow100UntilAllLoaded ==
    (OverlayShown /\ Truthy(numPages) /\ Cardinality(loadedPages) < numPages)
        => loadingProgress < 100

=============================================================================
